---- MODULE Spec2Model ----
(***************************************************************************)
(* Model of contracts/nft/src/helpers.rs: the NftContract handle, a        *)
(* newtype around an address with the helpers addr, call, get_owner and    *)
(* all_tokens.  The querier passed to get_owner / all_tokens is the        *)
(* environment: it receives the requests the handle issues and answers     *)
(* each of them with any value of SystemResult<ContractResult<Binary>>.    *)
(*                                                                         *)
(* Binary values (the JSON produced by to_binary) are modelled as flat     *)
(* sequences of string tokens: a field name, then "str" and the string, or *)
(* "null" for an absent Option.                                            *)
(***************************************************************************)
EXTENDS Naturals, Sequences, FiniteSets

\* ------------------------------------------------------------------ bounds
MaxRequests == 3    \* requests the querier receives in one behaviour
MaxRepeat == 2      \* recorded call(o) results per operation o
MaxTokens == 3      \* length of a TokensResponse token list
MaxApprovals == 1   \* length of an OwnerOfResponse approvals list

\* ------------------------------------------------------------------- state
VARIABLES
    handle,     \* the NftContract value the caller holds
    ctorAddr,   \* the Addr the handle was constructed from
    requests,   \* every request the querier has received, in order
    lastCall,   \* the latest invocation: operation, argument, answer, result
    returned    \* for each operation o, the results of call(o) so far

vars == <<handle, ctorAddr, requests, lastCall, returned>>

\* ------------------------------------------------------------ input domains
\* Address strings handed to the constructor; nothing restricts them, so the
\* domain holds a mixed-case and an empty one beside the ordinary one.
AddrStrings == {"contractA", "CONTRACTA", ""}

\* cosmwasm_std::Addr, a wrapper of one string.
Addr(s) == [addr |-> s]

\* Into<String> for Addr, as used in `self.addr().into()`.
AddrIntoString(a) == a.addr

\* token_id: String arguments of get_owner.
TokenIds == {"7", ""}

\* Token ids and account names occurring in the target contract's answers.
RespTokens == {"1", "2"}
Owners == {"alice"}
Spenders == {"bob"}

\* Option<T>
None == <<>>
Some(x) == <<x>>

\* StdResult<T>
Ok(v) == [ok |-> TRUE, val |-> v]
Err(e) == [ok |-> FALSE, err |-> e]

\* StdError variants that can come out of the helpers.
StdError(kind, msg) == [kind |-> kind, msg |-> msg]

SeqsUpTo(S, n) == UNION {[1..k -> S] : k \in 0..n}

\* ------------------------------------------------------- message schemas
\* Values a caller passes to call(): anything convertible into ExecuteMsg.
\* Transfer is the operation the documentation names; Unencodable stands for
\* a value whose serialisation fails.
Operations ==
    {[type |-> "Transfer", to |-> "bob", token_id |-> t] : t \in TokenIds}
    \cup {[type |-> "Unencodable", to |-> "", token_id |-> ""]}

\* msg.into(): the operation as a variant of crate::contract::ExecuteMsg.
IntoExecuteMsg(o) ==
    [variant |-> IF o.type = "Transfer" THEN "transfer" ELSE "unencodable",
     to |-> o.to, token_id |-> o.token_id]

\* cw721_base::QueryMsg variants built by the helpers.
QueryMsgOwnerOf(token_id, include_expired) ==
    [variant |-> "owner_of", token_id |-> token_id,
     include_expired |-> include_expired]

QueryMsgAllTokens(start_after, limit) ==
    [variant |-> "all_tokens", start_after |-> start_after, limit |-> limit]

EncOptBool(o) ==
    IF o = None THEN <<"null">> ELSE <<IF o[1] THEN "true" ELSE "false">>

EncOptStr(o) == IF o = None THEN <<"null">> ELSE <<"str", o[1]>>

EncOptNum(o) == IF o = None THEN <<"null">> ELSE <<"num", o[1]>>

\* cosmwasm_std::to_binary: the JSON encoding of a message, or SerializeErr.
to_binary(m) ==
    CASE m.variant = "transfer" ->
           Ok(<<"transfer", "to", "str", m.to,
                "token_id", "str", m.token_id>>)
      [] m.variant = "owner_of" ->
           Ok(<<"owner_of", "token_id", "str", m.token_id, "include_expired">>
              \o EncOptBool(m.include_expired))
      [] m.variant = "all_tokens" ->
           Ok(<<"all_tokens", "start_after">> \o EncOptStr(m.start_after)
              \o <<"limit">> \o EncOptNum(m.limit))
      [] OTHER -> Err(StdError("SerializeErr", <<m.variant>>))

\* ---------------------------------------------------------- the envelopes
\* WasmMsg::Execute { contract_addr, msg, funds }
WasmMsgExecute(contract_addr, msg, funds) ==
    [variant |-> "Execute", contract_addr |-> contract_addr, msg |-> msg,
     funds |-> funds]

\* From<WasmMsg> for CosmosMsg
IntoCosmosMsg(w) == [variant |-> "Wasm", inner |-> w]

\* WasmQuery::Smart { contract_addr, msg }
WasmQuerySmart(contract_addr, msg) ==
    [variant |-> "Smart", contract_addr |-> contract_addr, msg |-> msg]

\* From<WasmQuery> for QueryRequest
IntoQueryRequest(q) == [variant |-> "Wasm", inner |-> q]

\* ------------------------------------------------------------ the querier
\* JSON of the responses the target contract can give.
EncOwnerOfResponse(r) == <<"owner", "str", r.owner, "approvals">> \o r.approvals

EncTokensResponse(r) == <<"tokens">> \o r.tokens

OwnerOfResponses ==
    {[owner |-> o, approvals |-> a] :
        o \in Owners, a \in SeqsUpTo(Spenders, MaxApprovals)}

TokensResponses == {[tokens |-> t] : t \in SeqsUpTo(RespTokens, MaxTokens)}

\* Binaries a contract of another schema version answers with.
ForeignBinaries == {<<"count", "num", "3">>, <<>>}

\* SystemResult<ContractResult<Binary>>: what raw_query may return.
QuerierAnswers ==
    {[kind |-> "Ok", data |-> b, msg |-> ""] :
        b \in {EncOwnerOfResponse(r) : r \in OwnerOfResponses}
              \cup {EncTokensResponse(r) : r \in TokensResponses}
              \cup ForeignBinaries}
    \cup {[kind |-> "ContractErr", data |-> <<>>, msg |-> "token not found"],
          [kind |-> "SystemErr", data |-> <<>>, msg |-> "no such contract"]}

NoAnswer == [kind |-> "NotAsked", data |-> <<>>, msg |-> ""]

\* cosmwasm_std::from_binary into the response type U.
from_binary(b, U) ==
    CASE U = "OwnerOfResponse" ->
           IF Len(b) >= 4 /\ b[1] = "owner" /\ b[2] = "str"
              /\ b[4] = "approvals"
           THEN Ok([owner |-> b[3], approvals |-> SubSeq(b, 5, Len(b))])
           ELSE Err(StdError("ParseErr", <<U>>))
      [] U = "TokensResponse" ->
           IF Len(b) >= 1 /\ b[1] = "tokens"
           THEN Ok([tokens |-> Tail(b)])
           ELSE Err(StdError("ParseErr", <<U>>))

\* QuerierWrapper::query: one raw_query round trip, whose answer is mapped
\* to the typed response or to an error.  sent lists the requests handed to
\* the querier.
QuerierWrapper_query(answer, request, U) ==
    [sent |-> <<request>>,
     result |->
        CASE answer.kind = "SystemErr" ->
               Err(StdError("GenericErr", <<"Querier system error", answer.msg>>))
          [] answer.kind = "ContractErr" ->
               Err(StdError("GenericErr", <<"Querier contract error", answer.msg>>))
          [] OTHER -> from_binary(answer.data, U)]

\* -------------------------------------------------------------- the handle
\* Variant: the constructor folds the address to lower case.
NftContract_normalised(a) ==
    <<IF a.addr = "CONTRACTA" THEN Addr("contractA") ELSE a>>

\* pub struct NftContract(pub Addr)
NftContract(a) == <<a>>

\* NftContract::addr
addr(self) == self[1]

\* Variant: the envelope carries a coin instead of an empty funds list.
call_withFunds(self, msg) ==
    LET bin == to_binary(IntoExecuteMsg(msg)) IN
    IF ~bin.ok
    THEN [result |-> Err(bin.err), sent |-> <<>>]
    ELSE [result |-> Ok(IntoCosmosMsg(
                          WasmMsgExecute(AddrIntoString(addr(self)),
                                         bin.val, <<"1uatom">>))),
          sent |-> <<>>]

\* Variant: the payload carries a sequence number taken from shared state.
call_nonce(self, msg) ==
    LET bin == to_binary(IntoExecuteMsg(msg)) IN
    IF ~bin.ok
    THEN [result |-> Err(bin.err), sent |-> <<>>]
    ELSE [result |-> Ok(IntoCosmosMsg(
                          WasmMsgExecute(AddrIntoString(addr(self)),
                                         bin.val \o [i \in 1..Len(requests) |-> "n"],
                                         <<>>))),
          sent |-> <<>>]

\* Variant: call hands the message to the ledger itself.
call_dispatch(self, msg) ==
    LET bin == to_binary(IntoExecuteMsg(msg)) IN
    IF ~bin.ok
    THEN [result |-> Err(bin.err), sent |-> <<>>]
    ELSE LET env == IntoCosmosMsg(
                        WasmMsgExecute(AddrIntoString(addr(self)), bin.val, <<>>))
         IN  [result |-> Ok(env), sent |-> <<env>>]

\* NftContract::call
call(self, msg) ==
    LET bin == to_binary(IntoExecuteMsg(msg)) IN
    IF ~bin.ok
    THEN [result |-> Err(bin.err), sent |-> <<>>]
    ELSE [result |-> Ok(IntoCosmosMsg(
                          WasmMsgExecute(AddrIntoString(addr(self)),
                                         bin.val, <<>>))),
          sent |-> <<>>]

\* Variant: the query asks for expired approvals too.
get_owner_expired(self, answer, token_id) ==
    LET msg == QueryMsgOwnerOf(token_id, Some(TRUE))
        bin == to_binary(msg)
    IN  IF ~bin.ok
        THEN [result |-> Err(bin.err), sent |-> <<>>]
        ELSE LET query == IntoQueryRequest(
                              WasmQuerySmart(AddrIntoString(addr(self)), bin.val))
                 res == QuerierWrapper_query(answer, query, "OwnerOfResponse")
             IN  [result |-> IF res.result.ok THEN Ok(res.result.val)
                             ELSE Err(res.result.err),
                  sent |-> res.sent]

\* Variant: a response that does not parse is replaced by an empty one.
get_owner_default(self, answer, token_id) ==
    LET msg == QueryMsgOwnerOf(token_id, None)
        bin == to_binary(msg)
    IN  IF ~bin.ok
        THEN [result |-> Err(bin.err), sent |-> <<>>]
        ELSE LET query == IntoQueryRequest(
                              WasmQuerySmart(AddrIntoString(addr(self)), bin.val))
                 res == QuerierWrapper_query(answer, query, "OwnerOfResponse")
             IN  [result |-> IF res.result.ok THEN Ok(res.result.val)
                             ELSE IF res.result.err.kind = "ParseErr"
                             THEN Ok([owner |-> "", approvals |-> <<>>])
                             ELSE Err(res.result.err),
                  sent |-> res.sent]

\* NftContract::get_owner
get_owner(self, answer, token_id) ==
    LET msg == QueryMsgOwnerOf(token_id, None)
        bin == to_binary(msg)
    IN  IF ~bin.ok
        THEN [result |-> Err(bin.err), sent |-> <<>>]
        ELSE LET query == IntoQueryRequest(
                              WasmQuerySmart(AddrIntoString(addr(self)), bin.val))
                 res == QuerierWrapper_query(answer, query, "OwnerOfResponse")
             IN  [result |-> IF res.result.ok THEN Ok(res.result.val)
                             ELSE Err(res.result.err),
                  sent |-> res.sent]

\* Variant: a non-empty page is followed by a request for the next one.
all_tokens_paged(self, answer) ==
    LET msg == QueryMsgAllTokens(None, None)
        bin == to_binary(msg)
    IN  IF ~bin.ok
        THEN [result |-> Err(bin.err), sent |-> <<>>]
        ELSE LET query == IntoQueryRequest(
                              WasmQuerySmart(AddrIntoString(addr(self)), bin.val))
                 res == QuerierWrapper_query(answer, query, "TokensResponse")
                 more == res.result.ok /\ res.result.val.tokens # <<>>
                 next == IntoQueryRequest(WasmQuerySmart(
                             AddrIntoString(addr(self)),
                             to_binary(QueryMsgAllTokens(
                                 Some(res.result.val.tokens[
                                          Len(res.result.val.tokens)]),
                                 None)).val))
             IN  [result |-> IF res.result.ok THEN Ok(res.result.val)
                             ELSE Err(res.result.err),
                  sent |-> IF more THEN res.sent \o <<next>> ELSE res.sent]

\* Variant: only the first token of the response is kept.
all_tokens_firstPage(self, answer) ==
    LET msg == QueryMsgAllTokens(None, None)
        bin == to_binary(msg)
    IN  IF ~bin.ok
        THEN [result |-> Err(bin.err), sent |-> <<>>]
        ELSE LET query == IntoQueryRequest(
                              WasmQuerySmart(AddrIntoString(addr(self)), bin.val))
                 res == QuerierWrapper_query(answer, query, "TokensResponse")
             IN  [result |-> IF res.result.ok
                             THEN Ok([tokens |->
                                        IF res.result.val.tokens = <<>>
                                        THEN <<>>
                                        ELSE <<res.result.val.tokens[1]>>])
                             ELSE Err(res.result.err),
                  sent |-> res.sent]

\* Variant: a failed query is answered with an empty token list.
all_tokens_fallback(self, answer) ==
    LET msg == QueryMsgAllTokens(None, None)
        bin == to_binary(msg)
    IN  IF ~bin.ok
        THEN [result |-> Err(bin.err), sent |-> <<>>]
        ELSE LET query == IntoQueryRequest(
                              WasmQuerySmart(AddrIntoString(addr(self)), bin.val))
                 res == QuerierWrapper_query(answer, query, "TokensResponse")
             IN  [result |-> IF res.result.ok THEN Ok(res.result.val)
                             ELSE IF res.result.err.kind = "GenericErr"
                             THEN Ok([tokens |-> <<>>])
                             ELSE Err(res.result.err),
                  sent |-> res.sent]

\* NftContract::all_tokens
all_tokens(self, answer) ==
    LET msg == QueryMsgAllTokens(None, None)
        bin == to_binary(msg)
    IN  IF ~bin.ok
        THEN [result |-> Err(bin.err), sent |-> <<>>]
        ELSE LET query == IntoQueryRequest(
                              WasmQuerySmart(AddrIntoString(addr(self)), bin.val))
                 res == QuerierWrapper_query(answer, query, "TokensResponse")
             IN  [result |-> IF res.result.ok THEN Ok(res.result.val)
                             ELSE Err(res.result.err),
                  sent |-> res.sent]

\* ----------------------------------------------------------------- actions
\* Requests issued by the latest invocation.
Issued == SubSeq(requests, lastCall.mark + 1, Len(requests))

Init ==
    \E s \in AddrStrings :
        /\ ctorAddr = Addr(s)
        /\ handle = NftContract(Addr(s))
        /\ requests = <<>>
        /\ lastCall = [op |-> "new", arg |-> <<>>, answer |-> NoAnswer,
                       result |-> Ok(<<>>), mark |-> 0]
        /\ returned = [o \in Operations |-> <<>>]

\* handle.addr()
AddrOp ==
    /\ lastCall' = [op |-> "addr", arg |-> <<>>, answer |-> NoAnswer,
                    result |-> addr(handle), mark |-> Len(requests)]
    /\ UNCHANGED <<handle, ctorAddr, requests, returned>>

\* handle.call(o); a call is recorded MaxRepeat times per operation
Call(o) ==
    /\ Len(returned[o]) < MaxRepeat
    /\ LET r == call(handle, o) IN
        /\ Len(requests) + Len(r.sent) <= MaxRequests
        /\ requests' = requests \o r.sent
        /\ lastCall' = [op |-> "call", arg |-> o, answer |-> NoAnswer,
                        result |-> r.result, mark |-> Len(requests)]
        /\ returned' = [returned EXCEPT ![o] = Append(@, r.result)]
    /\ UNCHANGED <<handle, ctorAddr>>

\* Variant: a successful get_owner rebinds the handle to the owner it learnt.
GetOwner_retarget(token_id, answer) ==
    /\ Len(requests) < MaxRequests
    /\ LET r == get_owner(handle, answer, token_id) IN
        /\ requests' = requests \o r.sent
        /\ lastCall' = [op |-> "get_owner", arg |-> token_id,
                        answer |-> answer, result |-> r.result,
                        mark |-> Len(requests)]
        /\ handle' = IF r.result.ok THEN NftContract(Addr(r.result.val.owner))
                     ELSE handle
    /\ UNCHANGED <<ctorAddr, returned>>

\* handle.get_owner(querier, token_id), the querier answering with answer
GetOwner(token_id, answer) ==
    /\ Len(requests) < MaxRequests
    /\ LET r == get_owner(handle, answer, token_id) IN
        /\ requests' = requests \o r.sent
        /\ lastCall' = [op |-> "get_owner", arg |-> token_id,
                        answer |-> answer, result |-> r.result,
                        mark |-> Len(requests)]
    /\ UNCHANGED <<handle, ctorAddr, returned>>

\* handle.all_tokens(querier), the querier answering with answer
AllTokens(answer) ==
    /\ Len(requests) < MaxRequests
    /\ LET r == all_tokens(handle, answer) IN
        /\ requests' = requests \o r.sent
        /\ lastCall' = [op |-> "all_tokens", arg |-> <<>>,
                        answer |-> answer, result |-> r.result,
                        mark |-> Len(requests)]
    /\ UNCHANGED <<handle, ctorAddr, returned>>

Next ==
    \/ AddrOp
    \/ \E o \in Operations : Call(o)
    \/ \E t \in TokenIds, a \in QuerierAnswers : GetOwner(t, a)
    \/ \E a \in QuerierAnswers : AllTokens(a)

Spec == Init /\ [][Next]_vars

\* ------------------------------------------------------------- properties
QueryOps == {"get_owner", "all_tokens"}

Encodable(o) == to_binary(IntoExecuteMsg(o)).ok

\* C1: call(o) of an encodable operation o on a handle bound to address a
\* returns an execute envelope whose target is a, whose payload is the
\* encoding of o as an ExecuteMsg and whose funds list is empty.
C1_CallEnvelope ==
    (lastCall.op = "call" /\ Encodable(lastCall.arg)) =>
        /\ lastCall.result.ok
        /\ lastCall.result.val.variant = "Wasm"
        /\ lastCall.result.val.inner.variant = "Execute"
        /\ lastCall.result.val.inner.contract_addr = ctorAddr.addr
        /\ lastCall.result.val.inner.msg =
               <<"transfer", "to", "str", lastCall.arg.to,
                 "token_id", "str", lastCall.arg.token_id>>
        /\ lastCall.result.val.inner.funds = <<>>

\* Scenario A: handle bound to "contractA", call(Transfer{bob, 7}).
C1_Witness ==
    /\ lastCall.op = "call"
    /\ lastCall.arg = [type |-> "Transfer", to |-> "bob", token_id |-> "7"]
    /\ ctorAddr.addr = "contractA"
    /\ lastCall.result.ok

\* C2: every get_owner(querier, token_id) issues exactly one request: a smart
\* query against the handle's own address carrying OwnerOf with that token_id
\* and include_expired unset.
C2_GetOwnerOneRequest ==
    lastCall.op = "get_owner" =>
        Issued = <<[variant |-> "Wasm",
                    inner |-> [variant |-> "Smart",
                               contract_addr |-> ctorAddr.addr,
                               msg |-> <<"owner_of", "token_id", "str",
                                         lastCall.arg,
                                         "include_expired", "null">>]]>>

C2_Witness ==
    /\ lastCall.op = "get_owner"
    /\ lastCall.arg = "7"
    /\ lastCall.answer.kind = "ContractErr"
    /\ lastCall.mark >= 1

\* C3: every all_tokens(querier) issues exactly one request: a smart query
\* against the handle's own address carrying AllTokens with start_after and
\* limit unset; no second page is requested whatever the response.
C3_AllTokensOneRequest ==
    lastCall.op = "all_tokens" =>
        Issued = <<[variant |-> "Wasm",
                    inner |-> [variant |-> "Smart",
                               contract_addr |-> ctorAddr.addr,
                               msg |-> <<"all_tokens", "start_after", "null",
                                         "limit", "null">>]]>>

C3_Witness ==
    /\ lastCall.op = "all_tokens"
    /\ lastCall.result.ok
    /\ Len(lastCall.result.val.tokens) = MaxTokens

\* C4: addr() on a handle constructed from a returns a itself, whatever a is.
C4_AddrRoundTrip ==
    lastCall.op = "addr" => lastCall.result = ctorAddr

C4_Witness ==
    /\ lastCall.op = "addr"
    /\ ctorAddr.addr = "CONTRACTA"
    /\ lastCall.result.addr = "CONTRACTA"

\* C5: when the querier answers with the encoding of a response, get_owner
\* and all_tokens return exactly that response: same owner and approvals,
\* same tokens in the same order with their duplicates.
C5_ResponseUnchanged ==
    /\ (lastCall.op = "get_owner" /\ lastCall.answer.kind = "Ok") =>
           \A r \in OwnerOfResponses :
               lastCall.answer.data = EncOwnerOfResponse(r)
                   => lastCall.result = Ok(r)
    /\ (lastCall.op = "all_tokens" /\ lastCall.answer.kind = "Ok") =>
           \A r \in TokensResponses :
               lastCall.answer.data = EncTokensResponse(r)
                   => lastCall.result = Ok(r)

\* A token list that is neither sorted nor free of duplicates comes back.
C5_Witness ==
    /\ lastCall.op = "all_tokens"
    /\ lastCall.answer.data = <<"tokens", "2", "1", "1">>
    /\ lastCall.result.ok
    /\ lastCall.result.val.tokens = <<"2", "1", "1">>

\* C6: when the querier reports a query-level failure, get_owner and
\* all_tokens return that failure (StdError::GenericErr carrying the
\* querier's message) and no response value, after exactly one request.
C6_QueryErrorSurfaced ==
    (lastCall.op \in QueryOps
        /\ lastCall.answer.kind \in {"ContractErr", "SystemErr"}) =>
        /\ ~lastCall.result.ok
        /\ DOMAIN lastCall.result = {"ok", "err"}
        /\ lastCall.result.err.kind = "GenericErr"
        /\ lastCall.result.err.msg =
               <<IF lastCall.answer.kind = "SystemErr"
                 THEN "Querier system error" ELSE "Querier contract error",
                 lastCall.answer.msg>>
        /\ Len(Issued) = 1

\* Scenario C, for all_tokens against a contract that does not exist.
C6_Witness ==
    /\ lastCall.op = "all_tokens"
    /\ lastCall.answer.kind = "SystemErr"
    /\ ~lastCall.result.ok

\* C7: all call(o) invocations with the same o on the same handle return
\* identical results, whatever other invocations came in between.
C7_CallIdempotent ==
    \A o \in Operations :
        \A i, j \in DOMAIN returned[o] : returned[o][i] = returned[o][j]

\* The same operation was called twice with a query in between.
C7_Witness ==
    \E o \in Operations :
        /\ Len(returned[o]) >= 2
        /\ returned[o][1].ok
        /\ lastCall.op = "call"
        /\ lastCall.arg = o
        /\ lastCall.mark >= 1

\* C8: call issues no request and changes neither the handle nor the
\* querier's log; a step that is a call leaves them as they were.
C8_CallNoDispatch ==
    [][lastCall'.op = "call" =>
          /\ requests' = requests
          /\ handle' = handle
          /\ ctorAddr' = ctorAddr]_vars

C8_Witness ==
    /\ lastCall.op = "call"
    /\ lastCall.result.ok
    /\ Len(requests) >= 1
    /\ Issued = <<>>

\* C9: when the querier answers successfully with content that is not the
\* encoding of the expected response type, get_owner and all_tokens return
\* StdError::ParseErr and no response value.
C9_SchemaMismatch ==
    /\ (lastCall.op = "get_owner" /\ lastCall.answer.kind = "Ok"
            /\ lastCall.answer.data
                   \notin {EncOwnerOfResponse(r) : r \in OwnerOfResponses}) =>
           /\ ~lastCall.result.ok
           /\ DOMAIN lastCall.result = {"ok", "err"}
           /\ lastCall.result.err.kind = "ParseErr"
    /\ (lastCall.op = "all_tokens" /\ lastCall.answer.kind = "Ok"
            /\ lastCall.answer.data
                   \notin {EncTokensResponse(r) : r \in TokensResponses}) =>
           /\ ~lastCall.result.ok
           /\ DOMAIN lastCall.result = {"ok", "err"}
           /\ lastCall.result.err.kind = "ParseErr"

\* get_owner is answered with a token list instead of an owner.
C9_Witness ==
    /\ lastCall.op = "get_owner"
    /\ lastCall.answer.kind = "Ok"
    /\ lastCall.answer.data = <<"tokens", "1">>
    /\ ~lastCall.result.ok

\* C10: after any sequence of invocations the handle is still exactly the
\* address it was constructed with and holds nothing else, and the latest
\* result is the one a fresh handle of that address gives for the same
\* arguments and the same querier answer.
C10_HandleImmutable ==
    /\ handle = <<ctorAddr>>
    /\ lastCall.op = "addr" => lastCall.result = addr(<<ctorAddr>>)
    /\ lastCall.op = "call" =>
           lastCall.result = call(<<ctorAddr>>, lastCall.arg).result
    /\ lastCall.op = "get_owner" =>
           lastCall.result =
               get_owner(<<ctorAddr>>, lastCall.answer, lastCall.arg).result
    /\ lastCall.op = "all_tokens" =>
           lastCall.result = all_tokens(<<ctorAddr>>, lastCall.answer).result

\* A failing query that follows a successful get_owner and another request.
C10_Witness ==
    /\ lastCall.op = "all_tokens"
    /\ ~lastCall.result.ok
    /\ lastCall.mark >= 2
    /\ \E o \in Operations : Len(returned[o]) >= 1

====
